---- MODULE Spec2Model ----
(***************************************************************************)
(* Geodesy kernel of donhautea/coordinates: great-circle distance,         *)
(* initial bearing, destination point and two-ray intersection, as they    *)
(* are written in coord.py, geolocation.py, multi_user_map.py and          *)
(* triangulate_app.py, and the Streamlit scripts built on it: the          *)
(* triangulation app, the origin/destination logger, the multi-user        *)
(* tracker with privacy modes and the multi-user map.  A run of a script   *)
(* is one action; each script has its own variables and specification.     *)
(*                                                                         *)
(* Number model.  A Python float is a fixed-point number with four         *)
(* decimals: the integer n stands for n / One.  Radians and every          *)
(* dimensionless quantity use this scale; degrees and kilometres are kept  *)
(* to whole units.  Every product, quotient and conversion rounds to the   *)
(* nearest unit, as IEEE arithmetic rounds to the nearest double.          *)
(* sin and cos are read from a table at the nearest whole degree; asin,    *)
(* acos and atan2 return the radians of the nearest whole degree.          *)
(* math.pi is smaller than the real pi, so on doubles sin(math.pi) and     *)
(* cos(math.pi/2) are not 0 but a residue of the last place; the model     *)
(* keeps that residue as one unit with the sign the double has.            *)
(* Signed zeros and second-order residues (1e-32) are not represented.     *)
(***************************************************************************)
EXTENDS Integers, Sequences, FiniteSets, TLC

VARIABLES pc, fn, args, ret, memo

\* triangulate_app.py: slider values, session state and the results of a run
VARIABLES in_session, bearings, calculated, selected, i_pts, int_center

triVars == <<in_session, bearings, calculated, selected, i_pts, int_center>>

\* geolocation.py: the reading of the geolocation component, the destination
\* of the run, the rows of the spreadsheet, its condition and the message of
\* the logging step
VARIABLES location_data, destination, sheet, gdrive, log_msg

geoVars == <<location_data, destination, sheet, gdrive, log_msg>>

\* multi_user_map.py: the rows of the worksheet, the date, the cached result
\* of fetch_latest_locations, the viewer's sidebar settings, the chart drawn
\* and the rows drawn in it
VARIABLES log, today, cached, viewer, shown, displayed

mapVars == <<log, today, cached, viewer, shown, displayed>>

\* multi_geolocation.py: the rows of the worksheet, the time, the cached
\* result of fetch_latest_locations and the frame the last run drew
VARIABLES geolog, clock, latest, recent

multiVars == <<geolog, clock, latest, recent>>

\* the state of the apps that call the kernel
appVars == <<triVars, geoVars, mapVars, multiVars>>

\* the state of the kernel calls
kernelVars == <<pc, fn, args, ret, memo>>

\* what a run of triangulate_app.py leaves alone
notTri == <<kernelVars, geoVars, mapVars, multiVars>>

\* what a run of geolocation.py leaves alone
notGeo == <<kernelVars, triVars, mapVars, multiVars>>

\* what a run of multi_user_map.py leaves alone
notMap == <<kernelVars, triVars, geoVars, multiVars>>

\* what a run of multi_geolocation.py leaves alone
notMulti == <<kernelVars, triVars, geoVars, mapVars>>

vars == <<pc, fn, args, ret, memo, appVars>>

-----------------------------------------------------------------------------
(* Float arithmetic *)

One == 10000

Pi == 31416

Abs(n) == IF n >= 0 THEN n ELSE -n

Sgn(n) == IF n > 0 THEN 1 ELSE IF n < 0 THEN -1 ELSE 0

\* n / d rounded to the nearest integer, halves away from zero (d > 0)
Round(n, d) == IF n >= 0 THEN (2 * n + d) \div (2 * d)
                         ELSE -((2 * (-n) + d) \div (2 * d))

\* a * b of two floats
Mul(a, b) == Round(a * b, One)

\* a / b of two floats, b # 0
Div(a, b) == IF b > 0 THEN Round(a * One, b) ELSE Round((-a) * One, -b)

\* math.radians, math.degrees
radians(d) == Round(d * Pi, 180)

degrees(x) == Round(x * 180, Pi)

\* sin of 0..90 degrees, in units of 1/One; SinTable[d + 1] = sin(d degrees)
SinTable ==
    <<     0,   175,   349,   523,   698,   872,  1045,  1219,  1392,  1564,
        1736,  1908,  2079,  2250,  2419,  2588,  2756,  2924,  3090,  3256,
        3420,  3584,  3746,  3907,  4067,  4226,  4384,  4540,  4695,  4848,
        5000,  5150,  5299,  5446,  5592,  5736,  5878,  6018,  6157,  6293,
        6428,  6561,  6691,  6820,  6947,  7071,  7193,  7314,  7431,  7547,
        7660,  7771,  7880,  7986,  8090,  8192,  8290,  8387,  8480,  8572,
        8660,  8746,  8829,  8910,  8988,  9063,  9135,  9205,  9272,  9336,
        9397,  9455,  9511,  9563,  9613,  9659,  9703,  9744,  9781,  9816,
        9848,  9877,  9903,  9925,  9945,  9962,  9976,  9986,  9994,  9998,
       10000 >>

SinDeg(d) ==
    LET r == d % 360
    IN  IF r <= 90 THEN SinTable[r + 1]
        ELSE IF r <= 180 THEN SinTable[180 - r + 1]
        ELSE IF r <= 270 THEN -SinTable[r - 180 + 1]
        ELSE -SinTable[360 - r + 1]

CosDeg(d) == SinDeg(d + 90)

\* math.sin.  At a multiple k*180 of degrees the table gives 0; the double
\* result is 0 only for the argument 0.0, otherwise it is the residue of
\* k*math.pi < k*pi (sin(math.pi) = 1.2e-16, sin(2*math.pi) = -2.4e-16).
sin(x) ==
    IF x = 0 THEN 0
    ELSE LET ax == Abs(x)
             d  == degrees(ax)
             t  == SinDeg(d)
             k  == d \div 180
             below == ax <= k * Pi
             s  == IF below THEN (IF k % 2 = 1 THEN 1 ELSE -1)
                            ELSE (IF k % 2 = 0 THEN 1 ELSE -1)
         IN  IF t # 0 THEN Sgn(x) * t ELSE Sgn(x) * s

\* math.cos.  At 90 + k*180 degrees the double result is the residue
\* (cos(math.pi/2) = 6.1e-17, cos(3*math.pi/2) = -1.8e-16).
cos(x) ==
    LET ax == Abs(x)
        d  == degrees(ax)
        t  == CosDeg(d)
        k  == (d - 90) \div 180
        below == 2 * ax <= (2 * k + 1) * Pi
    IN  IF t # 0 THEN t
        ELSE IF below THEN (IF k % 2 = 0 THEN 1 ELSE -1)
                      ELSE (IF k % 2 = 0 THEN -1 ELSE 1)

\* largest m in lo..hi with m * m <= n
RECURSIVE isqrt(_, _, _)
isqrt(n, lo, hi) ==
    IF lo >= hi THEN lo
    ELSE LET m == (lo + hi + 1) \div 2
         IN  IF m * m <= n THEN isqrt(n, m, hi) ELSE isqrt(n, lo, m - 1)

\* math.sqrt of a float v >= 0 (a negative v is a ValueError at the caller)
sqrt(v) ==
    LET n == v * One
        r == isqrt(n, 0, 2 * One)
    IN  IF n - r * r > r THEN r + 1 ELSE r

\* largest d in lo..hi with sin(d degrees) <= v
RECURSIVE AsinFloor(_, _, _)
AsinFloor(v, lo, hi) ==
    IF lo >= hi THEN lo
    ELSE LET m == (lo + hi + 1) \div 2
         IN  IF SinTable[m + 1] <= v THEN AsinFloor(v, m, hi)
                                     ELSE AsinFloor(v, lo, m - 1)

\* the degree in 0..90 whose sine is nearest to v, 0 <= v <= One
AsinDeg(v) ==
    LET d == AsinFloor(v, 0, 90)
    IN  IF d < 90 /\ SinTable[d + 2] - v < v - SinTable[d + 1] THEN d + 1 ELSE d

\* math.asin, math.acos of a float with |v| <= One (otherwise a ValueError
\* at the caller, see InDomain)
InDomain(v) == Abs(v) <= One

asin(v) == Sgn(v) * radians(AsinDeg(Abs(v)))

acos(v) == IF v >= 0 THEN radians(90 - AsinDeg(v)) ELSE radians(90 + AsinDeg(-v))

\* ay * cos(d) - ax * sin(d): positive below the angle of (ax, ay), negative above
AtanSide(ay, ax, d) == ay * CosDeg(d) - ax * SinDeg(d)

RECURSIVE AtanFloor(_, _, _, _)
AtanFloor(ay, ax, lo, hi) ==
    IF lo >= hi THEN lo
    ELSE LET m == (lo + hi + 1) \div 2
         IN  IF AtanSide(ay, ax, m) >= 0 THEN AtanFloor(ay, ax, m, hi)
                                         ELSE AtanFloor(ay, ax, lo, m - 1)

\* the degree in 0..90 nearest to atan(ay / ax), ay >= 0, ax >= 0, not both 0
AtanDeg(ay, ax) ==
    LET d == AtanFloor(ay, ax, 0, 90)
    IN  IF d < 90 /\ -AtanSide(ay, ax, d + 1) < AtanSide(ay, ax, d) THEN d + 1 ELSE d

\* math.atan2(y, x); atan2(0, 0) = 0
atan2(y, x) ==
    IF x = 0 /\ y = 0 THEN 0
    ELSE LET b == AtanDeg(Abs(y), Abs(x))
         IN  IF x >= 0 THEN radians(IF y >= 0 THEN b ELSE -b)
                       ELSE radians(IF y >= 0 THEN 180 - b ELSE b - 180)

-----------------------------------------------------------------------------
(* Results of a call *)

Float(n) == [kind |-> "float", val |-> <<n>>]

Point(lat, lon) == [kind |-> "point", val |-> <<lat, lon>>]

None == [kind |-> "None", val |-> <<>>]

Raise(e) == [kind |-> e, val |-> <<>>]

-----------------------------------------------------------------------------
(* coord.py *)

\* calculate_bearing with the longitudes added instead of subtracted
calculate_bearing_sum(lat1, lon1, lat2, lon2) ==
    LET phi1 == radians(lat1)
        phi2 == radians(lat2)
        d_lambda == radians(lon2 + lon1)
        x == Mul(sin(d_lambda), cos(phi2))
        y == Mul(cos(phi1), sin(phi2))
               - Mul(Mul(sin(phi1), cos(phi2)), cos(d_lambda))
    IN  Float((degrees(atan2(x, y)) + 360) % 360)

calculate_bearing(lat1, lon1, lat2, lon2) ==
    LET phi1 == radians(lat1)
        phi2 == radians(lat2)
        d_lambda == radians(lon2 - lon1)
        x == Mul(sin(d_lambda), cos(phi2))
        y == Mul(cos(phi1), sin(phi2))
               - Mul(Mul(sin(phi1), cos(phi2)), cos(d_lambda))
    IN  Float((degrees(atan2(x, y)) + 360) % 360)

\* calculate_distance with a radius that an earlier call has changed
calculate_distance_shared(lat1, lon1, lat2, lon2) ==
    LET R == IF memo.fn = "none" THEN 6371 ELSE 6371 + 1
        phi1 == radians(lat1)
        phi2 == radians(lat2)
        dphi == radians(lat2 - lat1)
        dlambda == radians(lon2 - lon1)
        sp == sin(Round(dphi, 2))
        sl == sin(Round(dlambda, 2))
        a == Mul(sp, sp) + Mul(Mul(cos(phi1), cos(phi2)), Mul(sl, sl))
        c == 2 * atan2(sqrt(a), sqrt(One - a))
    IN  IF a < 0 \/ One - a < 0 THEN Raise("ValueError")
        ELSE Float(Round(R * c, One))

calculate_distance(lat1, lon1, lat2, lon2) ==
    LET R == 6371
        phi1 == radians(lat1)
        phi2 == radians(lat2)
        dphi == radians(lat2 - lat1)
        dlambda == radians(lon2 - lon1)
        sp == sin(Round(dphi, 2))
        sl == sin(Round(dlambda, 2))
        a == Mul(sp, sp) + Mul(Mul(cos(phi1), cos(phi2)), Mul(sl, sl))
        c == 2 * atan2(sqrt(a), sqrt(One - a))
    IN  IF a < 0 \/ One - a < 0 THEN Raise("ValueError")
        ELSE Float(Round(R * c, One))

-----------------------------------------------------------------------------
(* geolocation.py *)

\* haversine_distance with cos(phi1) taken twice
haversine_distance_phi1(lat1, lon1, lat2, lon2) ==
    LET R == 6371
        phi1 == radians(lat1)
        phi2 == radians(lat2)
        Dphi == radians(lat2 - lat1)
        Dlambda == radians(lon2 - lon1)
        sp == sin(Round(Dphi, 2))
        sl == sin(Round(Dlambda, 2))
        a == Mul(sp, sp) + Mul(Mul(cos(phi1), cos(phi1)), Mul(sl, sl))
        c == 2 * atan2(sqrt(a), sqrt(One - a))
    IN  IF a < 0 \/ One - a < 0 THEN Raise("ValueError")
        ELSE Float(Round(R * c, One))

haversine_distance(lat1, lon1, lat2, lon2) ==
    LET R == 6371
        phi1 == radians(lat1)
        phi2 == radians(lat2)
        Dphi == radians(lat2 - lat1)
        Dlambda == radians(lon2 - lon1)
        sp == sin(Round(Dphi, 2))
        sl == sin(Round(Dlambda, 2))
        a == Mul(sp, sp) + Mul(Mul(cos(phi1), cos(phi2)), Mul(sl, sl))
        c == 2 * atan2(sqrt(a), sqrt(One - a))
    IN  IF a < 0 \/ One - a < 0 THEN Raise("ValueError")
        ELSE Float(Round(R * c, One))

\* initial_bearing without the reduction modulo 360
initial_bearing_nomod(lat1, lon1, lat2, lon2) ==
    LET phi1 == radians(lat1)
        phi2 == radians(lat2)
        Dlambda == radians(lon2 - lon1)
        x == Mul(sin(Dlambda), cos(phi2))
        y == Mul(cos(phi1), sin(phi2))
               - Mul(Mul(sin(phi1), cos(phi2)), cos(Dlambda))
        theta == degrees(atan2(x, y))
    IN  Float(theta + 360)

initial_bearing(lat1, lon1, lat2, lon2) ==
    LET phi1 == radians(lat1)
        phi2 == radians(lat2)
        Dlambda == radians(lon2 - lon1)
        x == Mul(sin(Dlambda), cos(phi2))
        y == Mul(cos(phi1), sin(phi2))
               - Mul(Mul(sin(phi1), cos(phi2)), cos(Dlambda))
        theta == degrees(atan2(x, y))
    IN  Float((theta + 360) % 360)

-----------------------------------------------------------------------------
(* multi_user_map.py *)

\* haversine with the arguments of atan2 exchanged
haversine_swapped(lat1, lon1, lat2, lon2) ==
    LET R == 6371
        phi1 == radians(lat1)
        phi2 == radians(lat2)
        dphi == radians(lat2 - lat1)
        dlambda == radians(lon2 - lon1)
        sp == sin(Round(dphi, 2))
        sl == sin(Round(dlambda, 2))
        a == Mul(sp, sp) + Mul(Mul(cos(phi1), cos(phi2)), Mul(sl, sl))
    IN  IF a < 0 \/ One - a < 0 THEN Raise("ValueError")
        ELSE Float(Round(R * (2 * atan2(sqrt(One - a), sqrt(a))), One))

haversine(lat1, lon1, lat2, lon2) ==
    LET R == 6371
        phi1 == radians(lat1)
        phi2 == radians(lat2)
        dphi == radians(lat2 - lat1)
        dlambda == radians(lon2 - lon1)
        sp == sin(Round(dphi, 2))
        sl == sin(Round(dlambda, 2))
        a == Mul(sp, sp) + Mul(Mul(cos(phi1), cos(phi2)), Mul(sl, sl))
    IN  IF a < 0 \/ One - a < 0 THEN Raise("ValueError")
        ELSE Float(Round(R * (2 * atan2(sqrt(a), sqrt(One - a))), One))

-----------------------------------------------------------------------------
(* triangulate_app.py *)

\* rotate_bearing with the sine and cosine of distance_km/R exchanged at line 19
rotate_bearing_exchanged(lat, lon, bearing_deg, distance_km) ==
    LET R == 6371
        br == radians(bearing_deg)
        lat1 == radians(lat)
        lon1 == radians(lon)
        dR == Round(distance_km * One, R)
        s2 == Mul(sin(lat1), sin(dR)) + Mul(Mul(cos(lat1), cos(dR)), cos(br))
        lat2 == asin(s2)
        lon2 == lon1 + atan2(Mul(Mul(sin(br), sin(dR)), cos(lat1)),
                             cos(dR) - Mul(sin(lat1), sin(lat2)))
    IN  IF ~InDomain(s2) THEN Raise("ValueError")
        ELSE Point(degrees(lat2), degrees(lon2))

rotate_bearing(lat, lon, bearing_deg, distance_km) ==
    LET R == 6371
        br == radians(bearing_deg)
        lat1 == radians(lat)
        lon1 == radians(lon)
        dR == Round(distance_km * One, R)
        s2 == Mul(sin(lat1), cos(dR)) + Mul(Mul(cos(lat1), sin(dR)), cos(br))
        lat2 == asin(s2)
        lon2 == lon1 + atan2(Mul(Mul(sin(br), sin(dR)), cos(lat1)),
                             cos(dR) - Mul(sin(lat1), sin(lat2)))
    IN  IF ~InDomain(s2) THEN Raise("ValueError")
        ELSE Point(degrees(lat2), degrees(lon2))

\* line 28: the argument of the square root, and Delta12
HaversineTerm(p1, p2) ==
    LET phi1 == radians(p1[1])
        phi2 == radians(p2[1])
        Dphi == phi2 - phi1
        Dlambda == radians(p2[2]) - radians(p1[2])
        sp == sin(Round(Dphi, 2))
        sl == sin(Round(Dlambda, 2))
    IN  Mul(sp, sp) + Mul(Mul(cos(phi1), cos(phi2)), Mul(sl, sl))

Raises28(p1, p2) ==
    HaversineTerm(p1, p2) < 0 \/ ~InDomain(sqrt(HaversineTerm(p1, p2)))

Delta12(p1, p2) == 2 * asin(sqrt(HaversineTerm(p1, p2)))

\* line 29 with the wrong comparison
Coincident_lt(p1, p2) == Delta12(p1, p2) < 0

\* line 29
Coincident(p1, p2) == Delta12(p1, p2) = 0

\* lines 30, 31: divisor and quotient under the arc cosine
Divisor(pa, pb, D12) == Mul(sin(D12), cos(radians(pa[1])))

Quotient(pa, pb, D12) ==
    Div(sin(radians(pb[1])) - Mul(sin(radians(pa[1])), cos(D12)), Divisor(pa, pb, D12))

theta_a(p1, p2) == acos(Quotient(p1, p2, Delta12(p1, p2)))

theta_b(p1, p2) == acos(Quotient(p2, p1, Delta12(p1, p2)))

\* line 32
theta12(p1, p2) ==
    IF sin(radians(p2[2]) - radians(p1[2])) > 0 THEN theta_a(p1, p2)
                                                ELSE 2 * Pi - theta_a(p1, p2)

\* line 32 without the conjugate of theta_b
theta21_plain(p1, p2) == theta_b(p1, p2)

theta21(p1, p2) ==
    IF sin(radians(p2[2]) - radians(p1[2])) > 0 THEN 2 * Pi - theta_b(p1, p2)
                                                ELSE theta_b(p1, p2)

\* lines 33, 34
alpha1(p1, b1, p2, b2) == ((radians(b1) - theta12(p1, p2) + Pi) % (2 * Pi)) - Pi

alpha2(p1, b1, p2, b2) == ((theta21(p1, p2) - radians(b2) + Pi) % (2 * Pi)) - Pi

\* line 35
Collinear(a1, a2) == sin(a1) = 0 /\ sin(a2) = 0

\* line 36 with cos for sin
Divergent_cos(a1, a2) == cos(a1) * cos(a2) < 0

\* line 36: the sign of the product of two floats is the sign of the exact product
Divergent(a1, a2) == sin(a1) * sin(a2) < 0

\* line 37: the argument of the arc cosine
Alpha3Arg(a1, a2, D12) ==
    (-Mul(cos(a1), cos(a2))) + Mul(Mul(sin(a1), sin(a2)), cos(D12))

\* line 38
Delta13(a1, a2, a3, D12) ==
    atan2(Mul(Mul(sin(D12), sin(a1)), sin(a2)), cos(a2) + Mul(cos(a1), cos(a3)))

\* line 39: the argument of the arc sine
Phi3Arg(phi1, theta13, D13) ==
    Mul(sin(phi1), cos(D13)) + Mul(Mul(cos(phi1), sin(D13)), cos(theta13))

\* line 40
lambda3(phi1, lambda1, theta13, D13, phi3) ==
    lambda1 + atan2(Mul(Mul(sin(theta13), sin(D13)), cos(phi1)),
                    cos(D13) - Mul(sin(phi1), sin(phi3)))

\* the call reaches line 33: lines 28 to 32 raised nothing and line 29 did not return
ReachesAlpha(p1, p2) ==
    /\ ~Raises28(p1, p2)
    /\ ~Coincident(p1, p2)
    /\ Divisor(p1, p2, Delta12(p1, p2)) # 0
    /\ InDomain(Quotient(p1, p2, Delta12(p1, p2)))
    /\ Divisor(p2, p1, Delta12(p1, p2)) # 0
    /\ InDomain(Quotient(p2, p1, Delta12(p1, p2)))

\* lines 39 to 41, given Delta13
Cross(phi1, lambda1, theta13, D13) ==
    IF ~InDomain(Phi3Arg(phi1, theta13, D13)) THEN Raise("ValueError")
    ELSE Point(degrees(asin(Phi3Arg(phi1, theta13, D13))),
               degrees(lambda3(phi1, lambda1, theta13, D13,
                               asin(Phi3Arg(phi1, theta13, D13)))))

\* lines 35 to 41, given Delta12, alpha1 and alpha2
Aim(phi1, lambda1, theta13, D12, a1, a2) ==
    IF Collinear(a1, a2) THEN None
    ELSE IF Divergent(a1, a2) THEN None
    ELSE IF ~InDomain(Alpha3Arg(a1, a2, D12)) THEN Raise("ValueError")
    ELSE Cross(phi1, lambda1, theta13,
               Delta13(a1, a2, acos(Alpha3Arg(a1, a2, D12)), D12))

line_intersection(p1, b1, p2, b2) ==
    IF Raises28(p1, p2) THEN Raise("ValueError")
    ELSE IF Coincident(p1, p2) THEN None
    ELSE IF Divisor(p1, p2, Delta12(p1, p2)) = 0 THEN Raise("ZeroDivisionError")
    ELSE IF ~InDomain(Quotient(p1, p2, Delta12(p1, p2))) THEN Raise("ValueError")
    ELSE IF Divisor(p2, p1, Delta12(p1, p2)) = 0 THEN Raise("ZeroDivisionError")
    ELSE IF ~InDomain(Quotient(p2, p1, Delta12(p1, p2))) THEN Raise("ValueError")
    ELSE Aim(radians(p1[1]), radians(p1[2]), radians(b1), Delta12(p1, p2),
             alpha1(p1, b1, p2, b2), alpha2(p1, b1, p2, b2))

-----------------------------------------------------------------------------
(* Calls of the kernel.  The functions hold no state: a behaviour is a     *)
(* sequence of calls, each with arguments of the caller's choice.          *)

MaxLatIdx == 7

MaxLonIdx == 5

MaxBearingIdx == 7

MaxDistIdx == 3

\* -90 .. 120 in steps of 30 (120 is not a latitude), and the pair 8, -8,
\* whose antipodal haversine term rounds above 1
Latitudes == {30 * i - 90 : i \in 0..MaxLatIdx} \cup {-8, 8}

\* -180 .. 270 in steps of 90 (270 is not a longitude)
Longitudes == {90 * i - 180 : i \in 0..MaxLonIdx}

Bearings == {45 * i : i \in 0..MaxBearingIdx}

\* half the circumference of the sphere, math.pi * 6371, in whole kilometres
HalfCircumference == Round(6371 * Pi, One)

\* 1000 is the default of rotate_bearing
Distances == {5000 * i : i \in 0..MaxDistIdx} \cup {1000, HalfCircumference}

\* observation stations of line_intersection; the last two are not valid points
Stations == {<<0, 0>>, <<0, 10>>, <<20, 0>>, <<20, 10>>, <<100, 0>>, <<0, 200>>}

-----------------------------------------------------------------------------
(* triangulate_app.py, the script.  Streamlit runs it from top to bottom   *)
(* after every change of a widget; an action is one such run.  The three   *)
(* stations lie within a quarter of a degree of each other in the source;  *)
(* at the resolution of the number model they are placed at whole degrees. *)

coords == [A |-> <<0, 0>>, B |-> <<0, 10>>, C |-> <<20, 0>>]

\* line 82 with the pair CA taken from A to C
pairs_AC == {<<"AB", "A", "B">>, <<"BC", "B", "C">>, <<"CA", "A", "C">>}

\* line 82
pairs == {<<"AB", "A", "B">>, <<"BC", "B", "C">>, <<"CA", "C", "A">>}

\* the number of slider positions tried, less one
MaxSliderIdx == 3

\* line 70: the values of a slider, 0 (its default) among them
SliderValues == {(135 * i) % 360 : i \in 0..MaxSliderIdx}

\* lines 85 and 86
PairPoint(t, b) ==
    CHOOSE pt \in {line_intersection(p, bp, q, bq) :
                      p \in {coords[t[2]]}, bp \in {b[t[2]]},
                      q \in {coords[t[3]]}, bq \in {b[t[3]]}} : TRUE

\* lines 83 to 88: the tags whose intersection is a point, with the point
Intersections(b) ==
    CHOOSE f \in {[tag \in {r[1] : r \in rs} |-> (CHOOSE r \in rs : r[1] = tag)[2].val] :
                    rs \in {{r \in {<<t[1], PairPoint(t, b)>> : t \in pairs} :
                                r[2].kind = "point"}}} : TRUE

RECURSIVE SumOf(_, _, _)
\* sum(i_pts[k][i] for k in sel)
SumOf(pts, sel, i) ==
    IF sel = {} THEN 0
    ELSE LET k == CHOOSE x \in sel : TRUE
         IN  pts[k][i] + SumOf(pts, sel \ {k}, i)

\* line 115 with the number of intersections for the number selected
Centroid_all(pts, sel) ==
    <<Div(SumOf(pts, sel, 1), Cardinality(DOMAIN pts)),
      Div(SumOf(pts, sel, 2), Cardinality(DOMAIN pts))>>

\* line 115
Centroid(pts, sel) ==
    <<Div(SumOf(pts, sel, 1), Cardinality(sel)),
      Div(SumOf(pts, sel, 2), Cardinality(sel))>>

\* no centre has been computed in the run
NoCenter == <<>>

\* lines 83 to 120 of a run whose widgets hold the sliders b and the flag
\* c; kept is session_state.selected as the run finds it.  The selection
\* widget exists only in a run that reaches line 112, and returns some of
\* its options.
Run(b, c, kept) ==
    \E pts \in {Intersections(b)} :
        /\ bearings' = b
        /\ calculated' = c
        /\ i_pts' = pts
        /\ IF c /\ DOMAIN pts # {}
           THEN \E sel \in SUBSET DOMAIN pts :
                   /\ selected' = sel
                   /\ int_center' = IF sel # {} THEN Centroid(pts, sel) ELSE NoCenter
           ELSE /\ selected' = kept
                /\ int_center' = NoCenter
        /\ UNCHANGED notTri

\* the session before the script has run: the sliders at their default,
\* session_state without the key 'calculated'
TriInit ==
    /\ in_session = FALSE
    /\ bearings = [k \in DOMAIN coords |-> 0]
    /\ calculated = FALSE
    /\ selected = {}
    /\ i_pts = <<>>
    /\ int_center = NoCenter

\* lines 71 to 73: the first run of a session
Open ==
    /\ ~in_session
    /\ in_session' = TRUE
    /\ Run(bearings, FALSE, {})

\* line 70: a slider is moved
MoveSlider ==
    /\ in_session
    /\ \E k \in DOMAIN coords, v \in SliderValues :
          Run([bearings EXCEPT ![k] = v], calculated, selected)
    /\ UNCHANGED in_session

\* lines 74 and 75
Calculate ==
    /\ in_session
    /\ Run(bearings, TRUE, selected)
    /\ UNCHANGED in_session

\* lines 76 to 78
Reset ==
    /\ in_session
    /\ Run(bearings, FALSE, {})
    /\ UNCHANGED in_session

\* line 112: the selection is changed
Select ==
    /\ in_session
    /\ calculated
    /\ DOMAIN i_pts # {}
    /\ Run(bearings, calculated, selected)
    /\ UNCHANGED in_session

NextTri ==
    \/ Open
    \/ MoveSlider
    \/ Calculate
    \/ Reset
    \/ Select

-----------------------------------------------------------------------------
(* geolocation.py, the script.  A coordinate is an integer number of       *)
(* tenths of a millionth of a degree, so that round(x, 6) has something to *)
(* round.  The route figures of lines 122 to 128 do not decide what is     *)
(* logged and are left out; no destination makes the two kernel calls      *)
(* raise for this origin.                                                   *)

\* line 16
ORIGIN_LAT == 146417100

\* line 17
ORIGIN_LON == 1210507800

\* None
Missing == <<>>

\* the value v of a dictionary entry
Given(v) == <<v>>

\* the truth value of None or of a float in an `if`
Truthy(o) == o # Missing /\ o[1] # 0

\* round(x, 6)
round6(x) == IF x >= 0 THEN (x + 5) \div 10 ELSE -((5 - x) \div 10)

\* lines 108 and 109
dest_of(loc, key) == IF loc.dict THEN loc[key] ELSE Missing

\* lines 111 to 116 with `is not None` for the truth value
Destination_notNone(loc) ==
    IF dest_of(loc, "latitude") # Missing /\ dest_of(loc, "longitude") # Missing
    THEN <<dest_of(loc, "latitude")[1], dest_of(loc, "longitude")[1]>>
    ELSE <<ORIGIN_LAT, ORIGIN_LON>>

\* lines 100 to 116 and 120: d_lat, d_lon
Destination(loc) ==
    IF Truthy(dest_of(loc, "latitude")) /\ Truthy(dest_of(loc, "longitude"))
    THEN <<dest_of(loc, "latitude")[1], dest_of(loc, "longitude")[1]>>
    ELSE <<ORIGIN_LAT, ORIGIN_LON>>

\* line 223 with `or` for `and`
Identical_or(d) ==
    round6(ORIGIN_LAT) = round6(d[1]) \/ round6(ORIGIN_LON) = round6(d[2])

\* line 223
Identical(d) ==
    round6(ORIGIN_LAT) = round6(d[1]) /\ round6(ORIGIN_LON) = round6(d[2])

\* the number of rows the spreadsheet can take
MaxRows == 2

\* the number of offsets from the origin tried, less one
MaxOffsetIdx == 2

\* readings of one coordinate: none, 0, and the origin's own value moved by
\* 0, 3 and 6 tenths of a millionth of a degree
Readings(origin) ==
    {Missing, Given(0)} \cup {Given(origin + 3 * i) : i \in 0..MaxOffsetIdx}

\* line 99: what streamlit_geolocation() returns
Locations ==
    {[dict |-> FALSE, latitude |-> Missing, longitude |-> Missing]}
    \cup {[dict |-> TRUE, latitude |-> la, longitude |-> lo] :
             la \in Readings(ORIGIN_LAT), lo \in Readings(ORIGIN_LON)}

\* lines 56 to 83: the spreadsheet answers and its header row names columns
\* of the record, or it has no such header, or the request raises
Conditions == {"ok", "no header", "unreachable"}

GeoInit ==
    /\ location_data = [dict |-> FALSE, latitude |-> Missing, longitude |-> Missing]
    /\ destination = <<ORIGIN_LAT, ORIGIN_LON>>
    /\ sheet = <<>>
    /\ gdrive = "ok"
    /\ log_msg = "none"

\* lines 99 to 226: one run of the script
GeoRun ==
    /\ \E loc \in Locations, cond \in Conditions :
          /\ location_data' = loc
          /\ destination' = Destination(loc)
          /\ gdrive' = cond
          /\ IF Identical(Destination(loc))
             THEN sheet' = sheet /\ log_msg' = "skipped"
             ELSE IF cond = "unreachable"
             THEN sheet' = sheet /\ log_msg' = "error"
             ELSE IF cond = "no header"
             THEN sheet' = sheet /\ log_msg' = "no data"
             ELSE /\ Len(sheet) < MaxRows
                  \* the row is the record's values; the destination stands for it
                  /\ sheet' = Append(sheet, Destination(loc))
                  /\ log_msg' = "logged"
    /\ UNCHANGED notGeo

NextGeo ==
    \/ GeoRun

-----------------------------------------------------------------------------
(* multi_user_map.py, the script.  A row of the worksheet keeps the        *)
(* columns that decide who is shown it: Email, Mode, SharedCode, SOS and   *)
(* the date of its Timestamp.  The origin user, the distances and the      *)
(* colours (lines 113 to 138, 220 to 230) change the picture of a row, not *)
(* whether it is drawn, and are left out.                                   *)

Emails == {"ana", "ben"}

Codes == {"", "group1", "group2"}

Modes == {"Public", "Private"}

\* the number of rows the worksheet can take
MaxLog == 2

\* the number of days that pass
MaxDay == 1

\* lines 150 to 159: record
record(email, mode, shared_code, sos, day) ==
    [Email |-> email,
     Mode |-> IF sos THEN "Public" ELSE mode,
     SharedCode |-> IF mode = "Private" THEN shared_code ELSE "",
     SOS |-> IF sos THEN "YES" ELSE "",
     Day |-> day]

\* multi_geolocation.py lines 104 to 111 and 67 to 72: the record of the
\* other app that logs to a worksheet of this name, under these headers
record_geo(email, day) ==
    [Email |-> email, Mode |-> "", SharedCode |-> "", SOS |-> "", Day |-> day]

\* the rows of a data frame
RowsOf(df) == {df[i] : i \in 1..Len(df)}

\* lines 80 to 94: fetch_latest_locations under st.cache_data
df_all_of(ws, cache) ==
    IF cache = -1 THEN ws ELSE SubSeq(ws, 1, cache)

\* lines 213 to 218: df_map
df_map(df, mode, shared_code, show_public) ==
    IF mode = "Private"
    THEN {r \in RowsOf(df) :
             (r.Mode = "Public" /\ show_public) \/ r.SharedCode = shared_code}
    ELSE {r \in RowsOf(df) : r.Mode = "Public"}

\* lines 173 to 176: df_user_path
df_user_path(df, path_user, day) ==
    {r \in RowsOf(df) : r.Email = path_user /\ r.Day = day}

\* line 131: all_users
all_users(df) == {r.Email : r \in RowsOf(df)}

MapInit ==
    /\ log = <<>>
    /\ today = 0
    /\ cached = -1
    /\ viewer = [mode |-> "Public", shared_code |-> ""]
    /\ shown = "none"
    /\ displayed = {}

\* lines 143 to 168: the worksheet after the logging step
Logged(email, gps, mode, shared_code, sos) ==
    IF gps /\ email # ""
    THEN Append(log, record(email, mode, shared_code, sos, today))
    ELSE log

\* lines 170 to 276: the chart, drawn from the frame df of line 114
Chart(df, mode, shared_code, show_public, show_path, path_user) ==
    IF show_path /\ path_user # ""
    THEN /\ shown' = "path"
         /\ displayed' = df_user_path(df, path_user, today)
    ELSE /\ shown' = "map"
         /\ displayed' = df_map(df, mode, shared_code, show_public)

\* lines 99 to 276: one run of the script; line 115 raises KeyError on the
\* empty frame that fetch_latest_locations returns for a worksheet without rows
MapRun ==
    /\ \E email \in Emails \cup {""}, mode \in Modes, shared_code \in Codes,
          show_public \in BOOLEAN, sos \in BOOLEAN, gps \in BOOLEAN,
          show_path \in BOOLEAN :
          \E df \in {df_all_of(log, cached)} :
             /\ viewer' = [mode |-> mode, shared_code |-> shared_code]
             /\ cached' = Len(df)
             /\ IF Len(df) = 0
                THEN /\ shown' = "error"
                     /\ displayed' = {}
                     /\ log' = log
                ELSE /\ Len(Logged(email, gps, mode, shared_code, sos)) <= MaxLog
                     /\ log' = Logged(email, gps, mode, shared_code, sos)
                     /\ \E path_user \in
                           IF show_path THEN all_users(df) ELSE {""} :
                           Chart(df, mode, shared_code, show_public,
                                 show_path, path_user)
    /\ UNCHANGED <<today, notMap>>

\* line 80: the 60 seconds of the cached frame pass
Expire ==
    /\ cached # -1
    /\ cached' = -1
    /\ UNCHANGED <<log, today, viewer, shown, displayed, notMap>>

\* multi_geolocation.py lines 97 to 113: the other app logs a record to the
\* worksheet
LogGeo ==
    /\ Len(log) < MaxLog
    /\ \E email \in Emails : log' = Append(log, record_geo(email, today))
    /\ UNCHANGED <<today, cached, viewer, shown, displayed, notMap>>

\* lines 147 and 173: midnight in Manila
Midnight ==
    /\ today < MaxDay
    /\ today' = today + 1
    /\ UNCHANGED <<log, cached, viewer, shown, displayed, notMap>>

NextMap ==
    \/ MapRun
    \/ Expire
    \/ LogGeo
    \/ Midnight

-----------------------------------------------------------------------------
(* multi_geolocation.py, the script.  A row of the worksheet keeps its     *)
(* Email and its Timestamp cell; a cell is the text strftime wrote for a   *)
(* time, or some other text.  The header row names the required columns.   *)

\* the number of rows the worksheet can take
MaxGeoLog == 3

\* the last time of the clock
MaxClock == 2

\* line 106: now.strftime("%Y-%m-%d %H:%M:%S")
strftime(t) == [text |-> "stamp", at |-> t]

\* a cell that is not a date, such as an empty one
Blank == [text |-> "", at |-> 0]

\* the parsed value of a cell that is not a date
NaT == -1

\* line 84: pd.to_datetime(cell, errors="coerce")
to_datetime(cell) == IF cell.text = "stamp" THEN cell.at ELSE NaT

\* lines 77 and 84: the frame, its Timestamp column parsed
Frame(ws) ==
    {[Email |-> ws[i].Email, Timestamp |-> to_datetime(ws[i].Timestamp), Row |-> i] :
        i \in 1..Len(ws)}

\* line 85: sort_values puts a before b, or leaves them as they fall;
\* NaT sorts last
SortsBefore(a, b) == b = NaT \/ (a # NaT /\ a <= b)

\* line 85: groupby("Email")
Group(df, e) == {r \in df : r.Email = e}

\* line 85: the rows that can stand last in their group
Tails(df, e) ==
    {r \in Group(df, e) : \A q \in Group(df, e) : SortsBefore(q.Timestamp, r.Timestamp)}

\* lines 75 to 86: the frames fetch_latest_locations can compute
fetch_latest_locations(ws) ==
    {rows \in SUBSET Frame(ws) :
        /\ \A r \in rows : r \in Tails(Frame(ws), r.Email)
        /\ \A e \in {r.Email : r \in Frame(ws)} :
              Cardinality(Group(rows, e)) = 1}

\* line 74: no frame is cached
NoFrame == [valid |-> FALSE, rows |-> {}]

MultiInit ==
    /\ geolog = <<>>
    /\ clock = 0
    /\ latest = NoFrame
    /\ recent = {}

\* lines 97 to 115: the worksheet after the logging step
LoggedGeo(email, gps) ==
    IF gps /\ email # ""
    THEN Append(geolog, [Email |-> email, Timestamp |-> strftime(clock)])
    ELSE geolog

\* lines 92 to 160: one run of the script
MultiRun ==
    /\ \E email \in Emails \cup {""}, gps \in BOOLEAN :
          /\ Len(LoggedGeo(email, gps)) <= MaxGeoLog
          /\ geolog' = LoggedGeo(email, gps)
          /\ IF latest.valid
             THEN /\ recent' = latest.rows
                  /\ latest' = latest
             ELSE /\ recent' \in fetch_latest_locations(LoggedGeo(email, gps))
                  /\ latest' = [valid |-> TRUE, rows |-> recent']
    /\ UNCHANGED <<clock, notMulti>>

\* line 74: the 60 seconds of the cached frame pass
ExpireLatest ==
    /\ latest.valid
    /\ latest' = NoFrame
    /\ UNCHANGED <<geolog, clock, recent, notMulti>>

\* line 77: a row entered in the worksheet by hand, its Timestamp cell empty
EditSheet ==
    /\ Len(geolog) < MaxGeoLog
    /\ \E email \in Emails :
          geolog' = Append(geolog, [Email |-> email, Timestamp |-> Blank])
    /\ UNCHANGED <<clock, latest, recent, notMulti>>

\* line 101: time passes
Tick ==
    /\ clock < MaxClock
    /\ clock' = clock + 1
    /\ UNCHANGED <<geolog, latest, recent, notMulti>>

NextMulti ==
    \/ MultiRun
    \/ ExpireLatest
    \/ EditSheet
    \/ Tick

-----------------------------------------------------------------------------
(* Behaviours *)

\* no call has been kept
NoCall == [fn |-> "none", args |-> <<>>, ret |-> None]

Init ==
    /\ pc = "idle"
    /\ fn = "none"
    /\ args = <<>>
    /\ ret = None
    /\ memo = NoCall
    /\ TriInit
    /\ GeoInit
    /\ MapInit
    /\ MultiInit

CalculateBearing ==
    /\ pc = "idle"
    /\ \E lat1 \in Latitudes, lon1 \in Longitudes, lat2 \in Latitudes, lon2 \in Longitudes :
          /\ fn' = "calculate_bearing"
          /\ args' = <<lat1, lon1, lat2, lon2>>
          /\ ret' = calculate_bearing(lat1, lon1, lat2, lon2)
    /\ pc' = "done"
    /\ UNCHANGED <<memo, appVars>>

CalculateDistance ==
    /\ pc = "idle"
    /\ \E lat1 \in Latitudes, lon1 \in Longitudes, lat2 \in Latitudes, lon2 \in Longitudes :
          /\ fn' = "calculate_distance"
          /\ args' = <<lat1, lon1, lat2, lon2>>
          /\ ret' = calculate_distance(lat1, lon1, lat2, lon2)
    /\ pc' = "done"
    /\ UNCHANGED <<memo, appVars>>

HaversineDistance ==
    /\ pc = "idle"
    /\ \E lat1 \in Latitudes, lon1 \in Longitudes, lat2 \in Latitudes, lon2 \in Longitudes :
          /\ fn' = "haversine_distance"
          /\ args' = <<lat1, lon1, lat2, lon2>>
          /\ ret' = haversine_distance(lat1, lon1, lat2, lon2)
    /\ pc' = "done"
    /\ UNCHANGED <<memo, appVars>>

InitialBearing ==
    /\ pc = "idle"
    /\ \E lat1 \in Latitudes, lon1 \in Longitudes, lat2 \in Latitudes, lon2 \in Longitudes :
          /\ fn' = "initial_bearing"
          /\ args' = <<lat1, lon1, lat2, lon2>>
          /\ ret' = initial_bearing(lat1, lon1, lat2, lon2)
    /\ pc' = "done"
    /\ UNCHANGED <<memo, appVars>>

Haversine ==
    /\ pc = "idle"
    /\ \E lat1 \in Latitudes, lon1 \in Longitudes, lat2 \in Latitudes, lon2 \in Longitudes :
          /\ fn' = "haversine"
          /\ args' = <<lat1, lon1, lat2, lon2>>
          /\ ret' = haversine(lat1, lon1, lat2, lon2)
    /\ pc' = "done"
    /\ UNCHANGED <<memo, appVars>>

RotateBearing ==
    /\ pc = "idle"
    /\ \E lat \in Latitudes, lon \in Longitudes, bearing_deg \in Bearings, distance_km \in Distances :
          /\ fn' = "rotate_bearing"
          /\ args' = <<lat, lon, bearing_deg, distance_km>>
          /\ ret' = rotate_bearing(lat, lon, bearing_deg, distance_km)
    /\ pc' = "done"
    /\ UNCHANGED <<memo, appVars>>

LineIntersection ==
    /\ pc = "idle"
    /\ \E p1 \in Stations, b1 \in Bearings, p2 \in Stations, b2 \in Bearings :
          /\ fn' = "line_intersection"
          /\ args' = <<p1[1], p1[2], b1, p2[1], p2[2], b2>>
          /\ ret' = line_intersection(p1, b1, p2, b2)
    /\ pc' = "done"
    /\ UNCHANGED <<memo, appVars>>

\* the caller has consumed the result
Return ==
    /\ pc = "done"
    /\ pc' = "idle"
    /\ fn' = "none"
    /\ args' = <<>>
    /\ ret' = None
    /\ UNCHANGED <<memo, appVars>>

Next ==
    \/ CalculateBearing
    \/ CalculateDistance
    \/ HaversineDistance
    \/ InitialBearing
    \/ Haversine
    \/ RotateBearing
    \/ LineIntersection
    \/ Return

Spec == Init /\ [][Next]_vars

SpecTri == Init /\ [][NextTri]_vars

SpecGeo == Init /\ [][NextGeo]_vars

SpecMap == Init /\ [][NextMap]_vars

SpecMulti == Init /\ [][NextMulti]_vars

-----------------------------------------------------------------------------
(* Vocabulary of the properties *)

ValidPoint(lat, lon) == -90 <= lat /\ lat <= 90 /\ -180 <= lon /\ lon <= 180

BearingCall == pc = "done" /\ fn \in {"calculate_bearing", "initial_bearing"}

DistanceCall == pc = "done" /\ fn \in {"calculate_distance", "haversine_distance", "haversine"}

RotateCall == pc = "done" /\ fn = "rotate_bearing"

IntersectCall == pc = "done" /\ fn = "line_intersection"

\* the two points of a distance or bearing call, the stations of an intersection
ArgP == <<args[1], args[2]>>

ArgQ == IF fn = "line_intersection" THEN <<args[4], args[5]>> ELSE <<args[3], args[4]>>

ArgB1 == args[3]

ArgB2 == args[6]

ArgsValid ==
    /\ ValidPoint(ArgP[1], ArgP[2])
    /\ fn # "rotate_bearing" => ValidPoint(ArgQ[1], ArgQ[2])

\* the distance function named by fn, applied to other arguments
SameDistance(lat1, lon1, lat2, lon2) ==
    IF fn = "calculate_distance" THEN calculate_distance(lat1, lon1, lat2, lon2)
    ELSE IF fn = "haversine_distance" THEN haversine_distance(lat1, lon1, lat2, lon2)
    ELSE haversine(lat1, lon1, lat2, lon2)

-----------------------------------------------------------------------------
(* Properties *)

EquatorNorthNorth ==
    IntersectCall /\ args = <<0, 0, 0, 0, 10, 0>>

\* C1 as stated: line_intersection for stations (0, 0) and (0, 10), both
\* bearing 0, fails (returns None) and returns no point.
C1_EquatorNorthFails == EquatorNorthNorth => ret = None

\* C1 amended: line_intersection for stations (0, 0) and (0, 10), both bearing
\* 0, does not fail; it returns the point of latitude 90, where the two
\* meridians cross.
C1_EquatorNorthMeetsAtPole == EquatorNorthNorth => ret = Point(90, 0)

C1_Witness == EquatorNorthNorth /\ ret.kind = "point"

\* C2: for every pair of bearings, line_intersection of two coincident
\* stations returns None (its failure, DegenerateInputError in the
\* specification) and no point.
C2_CoincidentStationsFail ==
    (IntersectCall /\ ArgP = ArgQ) => ret = None

C2_Witness ==
    /\ IntersectCall
    /\ ArgP = ArgQ
    /\ ArgsValid
    /\ ArgB1 # ArgB2
    /\ Delta12(ArgP, ArgQ) = 0
    /\ ret = None

\* C3: for stations that do not coincide, whenever the offsets alpha1 and
\* alpha2 computed at lines 33 and 34 satisfy sin(alpha1) * sin(alpha2) < 0,
\* line_intersection returns None and no point.
C3_DivergentRaysFail ==
    (/\ IntersectCall
     /\ ReachesAlpha(ArgP, ArgQ)
     /\ sin(alpha1(ArgP, ArgB1, ArgQ, ArgB2)) * sin(alpha2(ArgP, ArgB1, ArgQ, ArgB2)) < 0)
    => ret = None

C3_Witness ==
    /\ IntersectCall
    /\ ArgsValid
    /\ ReachesAlpha(ArgP, ArgQ)
    /\ sin(alpha1(ArgP, ArgB1, ArgQ, ArgB2)) > 0
    /\ sin(alpha2(ArgP, ArgB1, ArgQ, ArgB2)) < 0
    /\ ret = None

\* the ray with offset a lies along the geodesic through the two stations:
\* the sine of a is 0 in real arithmetic (a is 0 or a half turn)
AlongGeodesic(a) == SinDeg(degrees(a)) = 0

\* C4: for stations that do not coincide, whenever both rays lie along the
\* geodesic connecting the stations, line_intersection fails and returns no
\* point.
C4_CollinearRaysFail ==
    (/\ IntersectCall
     /\ ArgsValid
     /\ ReachesAlpha(ArgP, ArgQ)
     /\ AlongGeodesic(alpha1(ArgP, ArgB1, ArgQ, ArgB2))
     /\ AlongGeodesic(alpha2(ArgP, ArgB1, ArgQ, ArgB2)))
    => ret.kind # "point"

\* C5: a call of any of the four operations with a latitude outside
\* [-90, 90] or a longitude outside [-180, 180] is rejected with
\* InvalidCoordinateError instead of returning a number or a point.
C5_InvalidCoordinatesRejected ==
    (pc = "done" /\ ~ArgsValid) => ret.kind = "InvalidCoordinateError"

\* C6: for valid points P # Q the bearing is in [0, 360): never negative,
\* never 360.
C6_BearingRange ==
    (BearingCall /\ ArgsValid /\ ArgP # ArgQ)
    => (ret.kind = "float" /\ 0 <= ret.val[1] /\ ret.val[1] < 360)

\* a bearing whose atan2 angle was negative and has been brought into range
C6_Witness ==
    /\ BearingCall
    /\ ArgsValid
    /\ ArgP # ArgQ
    /\ ret.kind = "float"
    /\ ret.val[1] > 180

\* C7: for every valid point P the bearing from P to P is 0 and the call
\* does not fail.
C7_BearingOfSamePoint ==
    (BearingCall /\ ArgsValid /\ ArgP = ArgQ) => ret = Float(0)

C7_Witness ==
    /\ BearingCall
    /\ ArgsValid
    /\ ArgP = ArgQ
    /\ ArgP[1] # 0
    /\ ArgP[2] # 0
    /\ ret = Float(0)

\* C8: for all valid points P and Q, distance(P, Q) equals distance(Q, P).
C8_DistanceSymmetric ==
    (DistanceCall /\ ArgsValid)
    => ret = SameDistance(ArgQ[1], ArgQ[2], ArgP[1], ArgP[2])

C8_Witness ==
    /\ DistanceCall
    /\ ArgsValid
    /\ ArgP[1] # ArgQ[1]
    /\ ArgP[2] # ArgQ[2]
    /\ ret.kind = "float"
    /\ ret.val[1] > 0

\* C9: for every valid point P, distance(P, P) is exactly 0, and no distance
\* between valid points is negative.
C9_DistanceZeroAndNonNegative ==
    (DistanceCall /\ ArgsValid)
    => /\ ArgP = ArgQ => ret = Float(0)
       /\ ret.kind = "float" => ret.val[1] >= 0

C9_Witness ==
    /\ DistanceCall
    /\ ArgsValid
    /\ ArgP = ArgQ
    /\ ArgP[1] # 0
    /\ ret = Float(0)

\* the resolution of the model: inverse functions return whole degrees, and
\* four of them are taken between the start point and the distance back
RoundTripTolerance == 4 * Round(6371 * radians(1), One)

\* C10: for every valid start point P, bearing and distance d from 0 to half
\* the circumference, distance(P, destination(P, bearing, d)) equals d within
\* a small tolerance.
C10_RoundTrip ==
    (RotateCall /\ ArgsValid /\ args[4] <= HalfCircumference)
    => /\ ret.kind = "point"
       /\ LET back == haversine_distance(args[1], args[2], ret.val[1], ret.val[2])
          IN  /\ back.kind = "float"
              /\ Abs(back.val[1] - args[4]) <= RoundTripTolerance

-----------------------------------------------------------------------------
(* Repeated calls.  coord.py calls calculate_bearing at lines 74 and 75 and *)
(* again, with the same arguments, at lines 109 and 110; the first results  *)
(* are kept in b1 and b2 while other code runs.  memo is the kept call.     *)

\* the calls whose result the caller keeps
Probes ==
    {<<30, 90, -30, 0>>, <<8, 0, -8, 180>>, <<30, 90, 45, 5000>>, <<0, 0, 45, 0, 10, 315>>}

Remember ==
    /\ pc = "done"
    /\ args \in Probes
    /\ memo' = [fn |-> fn, args |-> args, ret |-> ret]
    /\ pc' = "idle"
    /\ fn' = "none"
    /\ args' = <<>>
    /\ ret' = None
    /\ UNCHANGED appVars

NextCalls ==
    \/ Next
    \/ Remember

SpecCalls == Init /\ [][NextCalls]_vars

\* the call that has returned is the kept call made again
Repeated == pc = "done" /\ memo.fn = fn /\ memo.args = args

Fused == in_session /\ int_center # NoCenter

\* c is the quotient total / n rounded to the nearest unit of the number model
IsMean(c, total, n) == 2 * Abs(n * c - One * total) <= n

\* C14: the centre computed at line 115 is the component-wise arithmetic
\* mean of the selected intersections; it is computed only for a selection
\* that is not empty and holds only tags of intersections that exist, and
\* for every such selection; the estimates (0,0), (1,1), (2,0) give
\* (1, 1/3).
C14_CentroidIsMeanOfSelection ==
    /\ Fused =>
          /\ selected # {}
          /\ selected \subseteq DOMAIN i_pts
          /\ \A i \in 1..2 :
                IsMean(int_center[i], SumOf(i_pts, selected, i), Cardinality(selected))
    /\ (in_session /\ calculated /\ DOMAIN i_pts # {} /\ selected # {}) => Fused
    /\ Centroid([AB |-> <<0, 0>>, BC |-> <<1, 1>>, CA |-> <<2, 0>>], {"AB", "BC", "CA"})
          = <<One, One \div 3>>

C14_Witness ==
    /\ Fused
    /\ Cardinality(selected) = 2
    /\ Cardinality(DOMAIN i_pts) = 3
    /\ int_center[1] # 0

\* the call of line 85 for the stations p and q with their sliders
PairCall(p, q) == line_intersection(coords[p], bearings[p], coords[q], bearings[q])

\* i_pts holds tag exactly if the intersection from p to q is a point, and
\* then holds that point
HoldsIff(tag, p, q) ==
    /\ tag \in DOMAIN i_pts <=> PairCall(p, q).kind = "point"
    /\ tag \in DOMAIN i_pts => i_pts[tag] = PairCall(p, q).val

\* C15: after every run, i_pts has the tag AB, BC or CA exactly if
\* line_intersection for the pair (A,B), (B,C) or (C,A) returned a point, so
\* it has at most three entries and none for a pair whose call returned None.
C15_PairwiseEstimates ==
    in_session =>
       /\ DOMAIN i_pts \subseteq {"AB", "BC", "CA"}
       /\ HoldsIff("AB", "A", "B")
       /\ HoldsIff("BC", "B", "C")
       /\ HoldsIff("CA", "C", "A")

C15_Witness ==
    /\ in_session
    /\ "CA" \in DOMAIN i_pts
    /\ "AB" \notin DOMAIN i_pts
    /\ PairCall("A", "B") = None
    /\ PairCall("A", "C").kind = "point"
    /\ PairCall("A", "C").val # i_pts["CA"]

\* the component reported both a latitude and a longitude
Reported == 
    /\ location_data.dict
    /\ location_data.latitude # Missing
    /\ location_data.longitude # Missing

\* C16: the destination of a run is the reported fix whenever the component
\* reported a latitude and a longitude, and the origin when it did not.
C16_DestinationIsReportedFix ==
    /\ Reported =>
          destination = <<location_data.latitude[1], location_data.longitude[1]>>
    /\ ~Reported => destination = <<ORIGIN_LAT, ORIGIN_LON>>

\* a and b are the same number to 6 decimals: less than half a millionth
\* of a degree apart (no reading lies exactly half a millionth away)
SameTo6(a, b) == Abs(a - b) < 5

\* the destination is the origin to 6 decimals
AtOrigin(d) == SameTo6(d[1], ORIGIN_LAT) /\ SameTo6(d[2], ORIGIN_LON)

\* the run fell back to the origin
FellBack(loc, d) ==
    /\ ~loc.dict \/ loc.latitude = Missing \/ loc.longitude = Missing
    /\ d = <<ORIGIN_LAT, ORIGIN_LON>>

\* C17 as stated: a run appends a row exactly if its destination differs
\* from the origin after rounding to 6 decimals.
C17_AppendsIffDifferent ==
    [][(sheet' # sheet) <=> ~AtOrigin(destination')]_vars

\* C17 amended: a run appends a row only if its destination differs from
\* the origin after rounding to 6 decimals, and then the row is that of the
\* destination; it appends one whenever they differ and the spreadsheet is
\* reachable with a header naming the record's columns; a run that fell back
\* to the origin appends none.
C17_AppendsOnlyIfDifferent ==
    [][/\ (sheet' # sheet) =>
             (~AtOrigin(destination') /\ sheet' = Append(sheet, destination'))
       /\ (~AtOrigin(destination') /\ gdrive' = "ok") => sheet' # sheet
       /\ FellBack(location_data', destination') => sheet' = sheet
      ]_vars

\* a run has appended the row of a destination a few millionths of a degree
\* from the origin, after a run that was skipped could have been
C17_Witness ==
    /\ log_msg = "logged"
    /\ Len(sheet) = 1
    /\ sheet[1] = destination
    /\ destination[1] = ORIGIN_LAT
    /\ ~SameTo6(destination[2], ORIGIN_LON)

\* the row r, logged by the tracker, may be drawn for the viewer v
MayShow(r, v) ==
    (r.Mode \in Modes) =>
        /\ (r.Mode = "Private") => r.SharedCode = v.shared_code
        /\ (v.mode = "Public") => r.Mode = "Public"

\* C18: no row logged in Private mode without SOS is drawn, on the map or
\* in the path view, for a viewer whose shared code is another one, and a
\* viewer in Public mode is drawn only rows whose Mode is Public.
C18_PrivateRowsStayPrivate ==
    \A r \in displayed : MayShow(r, viewer)

\* the map of users alone keeps to the privacy modes
MapKeepsPrivacy ==
    (shown = "map") => \A r \in displayed : MayShow(r, viewer)

\* the rows of the frame hold, for each Email of the worksheet ws, its row
\* of the greatest parsed Timestamp, a row that does not parse counting
\* below every row that does
LatestPerEmail(rows, ws) ==
    /\ rows \subseteq Frame(ws)
    /\ \A e \in {r.Email : r \in Frame(ws)} :
          /\ Cardinality(Group(rows, e)) = 1
          /\ \A r \in Group(rows, e), q \in Group(Frame(ws), e) :
                /\ q.Timestamp # NaT => r.Timestamp # NaT
                /\ r.Timestamp # NaT => q.Timestamp <= r.Timestamp

\* C19: the frame fetch_latest_locations computes in a run holds exactly
\* one row for every Email of the worksheet, the row of that Email's greatest
\* parsed Timestamp, and never a row that does not parse where one does.
C19_LatestRowPerEmail ==
    [][(MultiRun /\ ~latest.valid) => LatestPerEmail(recent', geolog')]_vars

\* a freshly computed frame of a worksheet whose Timestamp cells all parse
\* holds the latest row of every Email
LatestOfParsedRows ==
    [][(MultiRun /\ ~latest.valid /\ \A r \in Frame(geolog') : r.Timestamp # NaT)
          => LatestPerEmail(recent', geolog')]_vars

====
